---- MODULE Spec2Model ----
(***************************************************************************)
(* The server side of the WebSocket opening handshake of ratchet_core:     *)
(* the incremental parser driver (StreamingParser::parse), the handshake   *)
(* decoder (RequestParser::decode, try_parse_request,                      *)
(* check_partial_request, parse_request), the header validation helpers    *)
(* and the response encoder (write_response).                              *)
(*                                                                         *)
(* A byte is a number in 0..255 and wire data is a sequence of bytes.      *)
(* Option<T> is a sequence of length at most one: None is <<>> and         *)
(* Some(x) is <<x>>.                                                       *)
(***************************************************************************)
EXTENDS Integers, Sequences, FiniteSets, TLC

\* ------------------------------------------------------------------ bytes

None == <<>>
Some(x) == <<x>>

SP == 32
CR == 13
LF == 10
COLON == 58
COMMA == 44

\* u8::to_ascii_lowercase, as used by eq_ignore_ascii_case
ToAsciiLower(c) == IF c >= 65 /\ c <= 90 THEN c + 32 ELSE c

\* [u8]::eq_ignore_ascii_case / str::eq_ignore_ascii_case
EqIgnoreAsciiCase(a, b) ==
    /\ Len(a) = Len(b)
    /\ \A i \in 1..Len(a) : ToAsciiLower(a[i]) = ToAsciiLower(b[i])

LowerAll(s) == [i \in 1..Len(s) |-> ToAsciiLower(s[i])]

\* the suffix of s that starts at index i
From(s, i) == SubSeq(s, i, Len(s))

\* With(e, F) is F(e), with e computed once however often F uses it: the
\* let bindings and loop variables of the code that later steps build on
With(e, F(_)) == CHOOSE r \in {F(x) : x \in {e}} : TRUE

RECURSIVE Concat(_)
Concat(ss) == IF ss = <<>> THEN <<>> ELSE Head(ss) \o Concat(Tail(ss))

\* ------------------------------------------------------------ constants

\* handshake/mod.rs
WEBSOCKET_STR == <<119, 101, 98, 115, 111, 99, 107, 101, 116>>          \* "websocket"
UPGRADE_STR == <<117, 112, 103, 114, 97, 100, 101>>                     \* "upgrade"
WEBSOCKET_VERSION_STR == <<49, 51>>                                     \* "13"
METHOD_GET == <<103, 101, 116>>                                         \* "get"

\* handshake/server/encoding.rs
MAX_HEADERS == 32
HTTP_VERSION == <<72, 84, 84, 80, 47, 49, 46, 49, 32>>                  \* "HTTP/1.1 "
STATUS_TERMINATOR_LEN == 2
TERMINATOR_NO_HEADERS == <<13, 10, 13, 10>>                             \* "\r\n\r\n"
TERMINATOR_WITH_HEADER == <<13, 10>>                                    \* "\r\n"
HTTP_VERSION_INT == 1

\* http::header names, as HeaderName::as_str gives them (lower case)
CONNECTION == <<99, 111, 110, 110, 101, 99, 116, 105, 111, 110>>
UPGRADE == <<117, 112, 103, 114, 97, 100, 101>>
HOST == <<104, 111, 115, 116>>
SEC_WEBSOCKET_VERSION ==
    <<115, 101, 99, 45, 119, 101, 98, 115, 111, 99, 107, 101, 116, 45,
      118, 101, 114, 115, 105, 111, 110>>
SEC_WEBSOCKET_KEY ==
    <<115, 101, 99, 45, 119, 101, 98, 115, 111, 99, 107, 101, 116, 45,
      107, 101, 121>>
SEC_WEBSOCKET_PROTOCOL ==
    <<115, 101, 99, 45, 119, 101, 98, 115, 111, 99, 107, 101, 116, 45,
      112, 114, 111, 116, 111, 99, 111, 108>>
SEC_WEBSOCKET_EXTENSIONS ==
    <<115, 101, 99, 45, 119, 101, 98, 115, 111, 99, 107, 101, 116, 45,
      101, 120, 116, 101, 110, 115, 105, 111, 110, 115>>

\* ------------------------------------------------------------ results

NoError == [kind |-> "None", cause |-> "None", arg |-> None]
NoValue == [key |-> <<>>, request |-> [uri |-> <<>>, headers |-> <<>>],
            extension |-> None, subprotocol |-> None, extension_header |-> None]

\* Error::with_cause(kind, cause)
ErrorWithCause(kind, cause, arg) == [kind |-> kind, cause |-> cause, arg |-> arg]

\* the argument of an error is an Option of a byte sequence: a version
\* number v is carried as the one-byte sequence <<v>>
HttpVersionError(v) ==
    ErrorWithCause("Http", "HttpVersion", [i \in 1..Len(v) |-> <<v[i]>>])
HttpMethodError(m) == ErrorWithCause("Http", "HttpMethod", m)
MissingHeaderError(name) == ErrorWithCause("Http", "MissingHeader", Some(name))
InvalidHeaderError(name) == ErrorWithCause("Http", "InvalidHeader", Some(name))

Ok(v) == [tag |-> "Ok", val |-> v, err |-> NoError]
Err(e) == [tag |-> "Err", val |-> NoValue, err |-> e]
IsOk(r) == r.tag = "Ok"
IsErr(r) == r.tag = "Err"

\* ------------------------------------------------ httparse::Request::parse

\* the character classes of httparse's byte maps
IsToken(c) ==
    \/ c >= 48 /\ c <= 57
    \/ c >= 65 /\ c <= 90
    \/ c >= 97 /\ c <= 122
    \/ c \in {33, 35, 36, 37, 38, 39, 42, 43, 45, 46, 94, 95, 96, 124, 126}
IsHeaderNameToken(c) == IsToken(c)
IsUriToken(c) == c >= 33 /\ c <= 126 /\ c \notin {34, 60, 62, 96}
IsHeaderValueToken(c) == c = 9 \/ (c >= 32 /\ c # 127)

\* the outcome of one scanning step: Complete with a value and the index of
\* the next unread byte, Partial (the buffer ended), or Error
ScanComplete(v, pos) == [st |-> "Complete", val |-> v, pos |-> pos, err |-> "None"]
ScanPartial == [st |-> "Partial", val |-> <<>>, pos |-> 0, err |-> "None"]
ScanError(e) == [st |-> "Error", val |-> <<>>, pos |-> 0, err |-> e]

RECURSIVE skip_empty_lines(_, _)
skip_empty_lines(b, i) ==
    IF i > Len(b) THEN ScanPartial
    ELSE IF b[i] = CR THEN
        IF i + 1 > Len(b) THEN ScanPartial
        ELSE IF b[i + 1] = LF THEN skip_empty_lines(b, i + 2)
        ELSE ScanError("NewLine")
    ELSE IF b[i] = LF THEN skip_empty_lines(b, i + 1)
    ELSE ScanComplete(<<>>, i)

\* the scanning loops of the parser advance over the bytes of one class
\* and stop at the first byte outside it: FirstStop is the index of that
\* byte, at or after j, and 0 when the buffer ends before one is found
InClass(class, c) ==
    CASE class = "token" -> IsToken(c)
      [] class = "uri" -> IsUriToken(c)
      [] class = "header-name" -> IsHeaderNameToken(c)
      [] class = "header-value" -> IsHeaderValueToken(c)
      [] class = "blank" -> c = SP \/ c = 9
FirstStop(b, j, class) ==
    With({k \in j..Len(b) : ~InClass(class, b[k])}, LAMBDA stops :
         IF stops = {} THEN 0 ELSE CHOOSE k \in stops : \A m \in stops : k <= m)

parse_token_from(b, i, j) ==
    With(FirstStop(b, j, "token"), LAMBDA k :
    IF k = 0 THEN ScanPartial
    ELSE IF b[k] = SP THEN ScanComplete(SubSeq(b, i, k - 1), k + 1)
    ELSE ScanError("Token"))

parse_token(b, i) == parse_token_from(b, i, i)

parse_uri_from(b, i, j) ==
    With(FirstStop(b, j, "uri"), LAMBDA k :
    IF k = 0 THEN ScanPartial
    ELSE IF b[k] = SP THEN ScanComplete(SubSeq(b, i, k - 1), k + 1)
    ELSE ScanError("Token"))

parse_uri(b, i) == parse_uri_from(b, i, i)

HTTP_1_DOT == <<72, 84, 84, 80, 47, 49, 46>>                            \* "HTTP/1."

\* eight bytes "HTTP/1.0" or "HTTP/1.1" give the minor version; with fewer
\* than eight bytes left, a prefix of "HTTP/1." is Partial, anything else
\* is already an error
parse_version(b, i) ==
    LET avail == Len(b) - i + 1 IN
    IF avail >= 8 THEN
        IF SubSeq(b, i, i + 6) # HTTP_1_DOT THEN ScanError("Version")
        ELSE IF b[i + 7] = 48 THEN ScanComplete(<<0>>, i + 8)
        ELSE IF b[i + 7] = 49 THEN ScanComplete(<<1>>, i + 8)
        ELSE ScanError("Version")
    ELSE IF From(b, i) = SubSeq(HTTP_1_DOT, 1, avail) THEN ScanPartial
    ELSE ScanError("Version")

newline(b, i) ==
    IF i > Len(b) THEN ScanPartial
    ELSE IF b[i] = CR THEN
        IF i + 1 > Len(b) THEN ScanPartial
        ELSE IF b[i + 1] = LF THEN ScanComplete(<<>>, i + 2)
        ELSE ScanError("NewLine")
    ELSE IF b[i] = LF THEN ScanComplete(<<>>, i + 1)
    ELSE ScanError("NewLine")

parse_header_name(b, i, j) ==
    With(FirstStop(b, j, "header-name"), LAMBDA k :
    IF k = 0 THEN ScanPartial
    ELSE IF b[k] = COLON THEN ScanComplete(SubSeq(b, i, k - 1), k + 1)
    ELSE ScanError("HeaderName"))

skip_header_whitespace(b, j) ==
    With(FirstStop(b, j, "blank"), LAMBDA k :
    IF k = 0 THEN ScanPartial ELSE ScanComplete(<<>>, k))

parse_header_value(b, i, j) ==
    With(FirstStop(b, j, "header-value"), LAMBDA k :
    IF k = 0 THEN ScanPartial
    ELSE IF b[k] = CR THEN
        IF k + 1 > Len(b) THEN ScanPartial
        ELSE IF b[k + 1] = LF THEN ScanComplete(SubSeq(b, i, k - 1), k + 2)
        ELSE ScanError("HeaderValue")
    ELSE IF b[k] = LF THEN ScanComplete(SubSeq(b, i, k - 1), k + 1)
    ELSE ScanError("HeaderValue"))

\* one header line from i: the name, the colon, optional white space, the
\* value and the end of the line
parse_header(b, i) ==
    With(parse_header_name(b, i, i + 1), LAMBDA n :
    IF n.st # "Complete" THEN n
    ELSE
    With(skip_header_whitespace(b, n.pos), LAMBDA w :
    IF w.st # "Complete" THEN w
    ELSE
    With(parse_header_value(b, w.pos, w.pos), LAMBDA v :
    IF v.st # "Complete" THEN v
    ELSE ScanComplete([name |-> n.val, value |-> v.val], v.pos))))

\* the header lines up to the blank line that ends the header section; hs
\* are the headers parsed so far
RECURSIVE parse_headers(_, _, _)
parse_headers(b, i, hs) ==
    IF i > Len(b) THEN ScanPartial
    ELSE IF b[i] = CR THEN
        IF i + 1 > Len(b) THEN ScanPartial
        ELSE IF b[i + 1] = LF THEN ScanComplete(hs, i + 2)
        ELSE ScanError("NewLine")
    ELSE IF b[i] = LF THEN ScanComplete(hs, i + 1)
    ELSE IF ~IsHeaderNameToken(b[i]) THEN ScanError("HeaderName")
    ELSE IF Len(hs) >= MAX_HEADERS THEN ScanError("TooManyHeaders")
    ELSE
        With(parse_header(b, i), LAMBDA h :
        IF h.st # "Complete" THEN h
        ELSE With(Append(hs, h.val), LAMBDA hs1 : parse_headers(b, h.pos, hs1)))

\* httparse::Request::new(&mut headers)
EmptyRequest == [method |-> None, path |-> None, version |-> None, headers |-> <<>>]

\* httparse::Request::parse: the status, the consumed byte count of a
\* complete parse, and the request as the call leaves it (the fields parsed
\* before the buffer ended stay set on Partial)
ParseStatus(st, count, request, err) ==
    [st |-> st, count |-> count, request |-> request, err |-> err]

RequestParse(b) ==
    With(skip_empty_lines(b, 1), LAMBDA s :
    IF s.st # "Complete" THEN ParseStatus(s.st, 0, EmptyRequest, s.err)
    ELSE
    With(parse_token(b, s.pos), LAMBDA m :
    IF m.st # "Complete" THEN ParseStatus(m.st, 0, EmptyRequest, m.err)
    ELSE
    With([EmptyRequest EXCEPT !.method = Some(m.val)], LAMBDA r1 :
    With(parse_uri(b, m.pos), LAMBDA p :
    IF p.st # "Complete" THEN ParseStatus(p.st, 0, r1, p.err)
    ELSE
    With([r1 EXCEPT !.path = Some(p.val)], LAMBDA r2 :
    With(parse_version(b, p.pos), LAMBDA v :
    IF v.st # "Complete" THEN ParseStatus(v.st, 0, r2, v.err)
    ELSE
    With([r2 EXCEPT !.version = v.val], LAMBDA r3 :
    With(newline(b, v.pos), LAMBDA n :
    IF n.st # "Complete" THEN ParseStatus(n.st, 0, r3, n.err)
    ELSE
    With(parse_headers(b, n.pos, <<>>), LAMBDA h :
    IF h.st # "Complete" THEN ParseStatus(h.st, 0, r3, h.err)
    ELSE ParseStatus("Complete", h.pos - 1, [r3 EXCEPT !.headers = h.val], "None")
    )))))))))

\* ------------------------------------------------- handshake/mod.rs helpers

\* headers.iter().find(|h| h.name.eq_ignore_ascii_case(name.as_str())):
\* the index of the first header of that name, 0 when there is none
RECURSIVE FindFrom(_, _, _)
FindFrom(headers, name, i) ==
    IF i > Len(headers) THEN 0
    ELSE IF EqIgnoreAsciiCase(headers[i].name, name) THEN i
    ELSE With(i + 1, LAMBDA k : FindFrom(headers, name, k))

FindHeader(headers, name) == FindFrom(headers, name, 1)

\* a faulty get_header, which returns the last header of the name instead of
\* the first one
RECURSIVE FindLastFrom(_, _, _)
FindLastFrom(headers, name, i) ==
    IF i < 1 THEN 0
    ELSE IF EqIgnoreAsciiCase(headers[i].name, name) THEN i
    ELSE With(i - 1, LAMBDA k : FindLastFrom(headers, name, k))
get_header_last(headers, name) ==
    LET i == FindLastFrom(headers, name, Len(headers)) IN
    IF i # 0 THEN [tag |-> "Ok", val |-> headers[i].value, err |-> NoError]
    ELSE [tag |-> "Err", val |-> <<>>, err |-> MissingHeaderError(name)]

\* Ok carries the bytes of the header's value
get_header(headers, name) ==
    LET i == FindHeader(headers, name) IN
    IF i # 0 THEN [tag |-> "Ok", val |-> headers[i].value, err |-> NoError]
    ELSE [tag |-> "Err", val |-> <<>>, err |-> MissingHeaderError(name)]

\* slice::split(pred): the pieces between the separators, empty ones kept
RECURSIVE Split(_, _)
Split(s, seps) ==
    With({i \in 1..Len(s) : s[i] \in seps}, LAMBDA at :
    IF at = {} THEN <<s>>
    ELSE With(CHOOSE i \in at : \A j \in at : i <= j, LAMBDA k :
         With(From(s, k + 1), LAMBDA rest :
         <<SubSeq(s, 1, k - 1)>> \o Split(rest, seps))))

\* the closure given to validate_header for the Connection header
ConnectionCheck(name, value) ==
    LET parts == Split(value, {COMMA, SP}) IN
    IF \E k \in 1..Len(parts) : EqIgnoreAsciiCase(parts[k], UPGRADE_STR)
    THEN Ok(NoValue)
    ELSE Err(InvalidHeaderError(name))

PresenceCheck(name, value) == Ok(NoValue)

ExpectValue(expected, name, actual) ==
    IF EqIgnoreAsciiCase(actual, expected) THEN Ok(NoValue)
    ELSE Err(InvalidHeaderError(name))

\* the closure f of validate_header is a record naming the closure's code and
\* carrying what it captured; CallClosure is the call f(name, value)
CallClosure(f, name, value) ==
    CASE f.fn = "ConnectionCheck" -> ConnectionCheck(name, value)
      [] f.fn = "PresenceCheck" -> PresenceCheck(name, value)
      [] f.fn = "ExpectValue" -> ExpectValue(f.expected, name, value)

validate_header(headers, name, f) ==
    LET i == FindHeader(headers, name) IN
    IF i # 0 THEN CallClosure(f, name, headers[i].value)
    ELSE Err(MissingHeaderError(name))

validate_header_value(headers, name, expected) ==
    validate_header(headers, name, [fn |-> "ExpectValue", expected |-> expected])

\* --------------------------------------------- header and request conversion

\* HeaderName::from_str: a non-empty token, stored in lower case
HeaderNameValid(name) == name # <<>> /\ \A i \in 1..Len(name) : IsToken(name[i])
\* HeaderValue::from_bytes
HeaderValueValid(value) ==
    \A i \in 1..Len(value) : value[i] = 9 \/ (value[i] >= 32 /\ value[i] # 127)

\* HeaderMap::insert: the value of an existing name is replaced in place, a
\* new name is appended; the map is held as the sequence it iterates in
HeaderMapInsert(map, name, value) ==
    LET i == FindHeader(map, name) IN
    IF i # 0 THEN [map EXCEPT ![i].value = value]
    ELSE Append(map, [name |-> name, value |-> value])

\* U+FFFD REPLACEMENT CHARACTER, in UTF-8
REPLACEMENT == <<239, 191, 189>>

\* String::from_utf8_lossy, for bytes below 0xE0 (no sequences of three or
\* four bytes): an ASCII byte and a lead byte 0xC2..0xDF with its
\* continuation byte are kept, any other byte becomes U+FFFD
RECURSIVE Utf8Lossy(_)
Utf8Lossy(b) ==
    IF b = <<>> THEN <<>>
    ELSE IF b[1] < 128 THEN <<b[1]>> \o Utf8Lossy(Tail(b))
    ELSE IF b[1] >= 194 /\ b[1] <= 223 /\ Len(b) >= 2 /\ b[2] >= 128 /\ b[2] <= 191
    THEN <<b[1], b[2]>> \o Utf8Lossy(Tail(Tail(b)))
    ELSE REPLACEMENT \o Utf8Lossy(Tail(b))

\* a faulty header_string, which copies the bytes of the value
header_string_raw(header) == header.name \o <<COLON, SP>> \o header.value

\* format!("{}: {}", header.name, String::from_utf8_lossy(header.value))
header_string(header) == header.name \o <<COLON, SP>> \o Utf8Lossy(header.value)

\* a faulty try_map, which leaves out the entries that do not convert
RECURSIVE headers_try_map_from_skip(_, _, _)
headers_try_map_from_skip(headers, i, map) ==
    IF i > Len(headers) THEN [tag |-> "Ok", val |-> map, err |-> NoError]
    ELSE IF ~HeaderNameValid(headers[i].name) \/ ~HeaderValueValid(headers[i].value)
    THEN With(i + 1, LAMBDA k : headers_try_map_from_skip(headers, k, map))
    ELSE With(HeaderMapInsert(map, LowerAll(headers[i].name), headers[i].value),
              LAMBDA map1 :
         With(i + 1, LAMBDA k : headers_try_map_from_skip(headers, k, map1)))

\* TryMap<HeaderMap> for &[httparse::Header]
RECURSIVE headers_try_map_from(_, _, _)
headers_try_map_from(headers, i, map) ==
    IF i > Len(headers) THEN [tag |-> "Ok", val |-> map, err |-> NoError]
    ELSE IF ~HeaderNameValid(headers[i].name) \/ ~HeaderValueValid(headers[i].value)
    THEN [tag |-> "Err", val |-> <<>>,
          err |-> ErrorWithCause("Http", "InvalidHeaderText",
                                 Some(header_string(headers[i])))]
    ELSE With(HeaderMapInsert(map, LowerAll(headers[i].name), headers[i].value),
              LAMBDA map1 :
         With(i + 1, LAMBDA k : headers_try_map_from(headers, k, map1)))

headers_try_map(headers) == headers_try_map_from(headers, 1, <<>>)

\* str::parse::<Uri> for a request target: "*" and the origin form ("/..."
\* with an optional query) parse, and so does a bare authority; a target
\* that does not start with "/" and holds a "/", "?" or "#" after its
\* authority, with no scheme before it, is rejected (InvalidFormat)
IsPathByte(c) ==
    \/ c = 33 \/ (c >= 36 /\ c <= 59) \/ c = 61 \/ (c >= 64 /\ c <= 95)
    \/ (c >= 97 /\ c <= 122) \/ c = 124 \/ c = 126 \/ c \in {34, 123, 125}
    \/ c = 63
IsAuthorityByte(c) ==
    \/ (c >= 48 /\ c <= 57) \/ (c >= 65 /\ c <= 90) \/ (c >= 97 /\ c <= 122)
    \/ c \in {45, 46}
UriParses(path) ==
    \/ path = <<42>>
    \/ path # <<>> /\ path[1] = 47 /\ \A i \in 1..Len(path) : IsPathByte(path[i])
    \/ path # <<>> /\ \A i \in 1..Len(path) : IsAuthorityByte(path[i])

\* TryMap<Request> for &httparse::Request
request_try_map(request) ==
    IF request.path = None
    THEN [tag |-> "Err", val |-> NoValue.request,
          err |-> ErrorWithCause("Http", "MalformattedUri", None)]
    ELSE IF ~UriParses(request.path[1])
    THEN [tag |-> "Err", val |-> NoValue.request,
          err |-> ErrorWithCause("Http", "MalformattedUri", request.path)]
    ELSE LET h == headers_try_map(request.headers) IN
         IF h.tag = "Err" THEN [tag |-> "Err", val |-> NoValue.request, err |-> h.err]
         ELSE [tag |-> "Ok", val |-> [uri |-> request.path[1], headers |-> h.val],
               err |-> NoError]

\* ------------------------------------------------------------- negotiation

\* str::trim for the spaces and tabs around an offered name
RECURSIVE Trim(_)
Trim(s) ==
    IF s = <<>> THEN s
    ELSE IF s[1] \in {SP, 9} THEN Trim(Tail(s))
    ELSE IF s[Len(s)] \in {SP, 9} THEN Trim(SubSeq(s, 1, Len(s) - 1))
    ELSE s

\* the names the client offers: the comma separated entries of every
\* Sec-WebSocket-Protocol header, in the order of the request
RECURSIVE OfferedFrom(_, _)
OfferedFrom(headers, i) ==
    IF i > Len(headers) THEN <<>>
    ELSE IF EqIgnoreAsciiCase(headers[i].name, SEC_WEBSOCKET_PROTOCOL)
    THEN With(Split(headers[i].value, {COMMA}), LAMBDA parts :
         With(i + 1, LAMBDA k :
         [n \in 1..Len(parts) |-> Trim(parts[n])] \o OfferedFrom(headers, k)))
    ELSE With(i + 1, LAMBDA k : OfferedFrom(headers, k))

Offered(headers) == OfferedFrom(headers, 1)

InSeq(x, s) == \E k \in 1..Len(s) : s[k] = x

\* the first registry entry, in registry order, that the client offers
RECURSIVE FirstOffered(_, _, _)
FirstOffered(registry, offer, i) ==
    IF i > Len(registry) THEN None
    ELSE IF InSeq(registry[i], offer) THEN Some(registry[i])
    ELSE With(i + 1, LAMBDA k : FirstOffered(registry, offer, k))

\* negotiate_request(subprotocols, request): Ok(Option<String>)
negotiate_request(subprotocols, request) ==
    With(Offered(request.headers), LAMBDA offer :
    [tag |-> "Ok", val |-> FirstOffered(subprotocols, offer, 1), err |-> NoError])

\* the extension offers an ExtensionProvider of the model understands
EXT_OFFER == <<100>>                                                    \* "d"
EXT_RESPONSE == <<100, 59, 110>>                                        \* "d;n"

\* ExtensionProvider::negotiate_server(headers) for the providers of the
\* model: "NoExt" never negotiates anything; "Ext" agrees to EXT_OFFER,
\* returns nothing when the request offers no extension, and fails on an
\* offer it cannot satisfy
negotiate_server(extension, headers) ==
    LET i == FindHeader(headers, SEC_WEBSOCKET_EXTENSIONS) IN
    IF extension = "NoExt" \/ i = 0
    THEN [tag |-> "Ok", val |-> None, err |-> NoError]
    ELSE IF headers[i].value = EXT_OFFER
    THEN [tag |-> "Ok", val |-> Some([ext |-> EXT_OFFER, header |-> EXT_RESPONSE]),
          err |-> NoError]
    ELSE [tag |-> "Err", val |-> None,
          err |-> ErrorWithCause("Extension", "NegotiationError", Some(headers[i].value))]

\* ------------------------------------------------- server/encoding.rs: decode

\* a faulty version rule, which accepts any version the parser recognised
version_rule_any(request) ==
    IF request.version # None THEN Ok(NoValue)
    ELSE Err(HttpVersionError(request.version))

version_rule(request) ==
    IF request.version = Some(HTTP_VERSION_INT) THEN Ok(NoValue)
    ELSE Err(HttpVersionError(request.version))

method_rule(request) ==
    IF request.method # None /\ EqIgnoreAsciiCase(request.method[1], METHOD_GET)
    THEN Ok(NoValue)
    ELSE Err(HttpMethodError(request.method))

\* a faulty Connection rule, which compares the whole value with "upgrade"
connection_rule_exact(request) ==
    validate_header_value(request.headers, CONNECTION, UPGRADE_STR)
connection_rule(request) == validate_header(request.headers, CONNECTION, [fn |-> "ConnectionCheck"])
\* a faulty Upgrade rule, which checks that the header is there and not its
\* value
upgrade_rule_presence(request) == validate_header(request.headers, UPGRADE, [fn |-> "PresenceCheck"])
upgrade_rule(request) == validate_header_value(request.headers, UPGRADE, WEBSOCKET_STR)
ws_version_rule(request) ==
    validate_header_value(request.headers, SEC_WEBSOCKET_VERSION, WEBSOCKET_VERSION_STR)
host_rule(request) == validate_header(request.headers, HOST, [fn |-> "PresenceCheck"])

\* what parse_request did: its result, the number of validation rules it
\* evaluated and the collaborators it called, in order
Outcome(r, rules, calls) ==
    [tag |-> r.tag, val |-> r.val, err |-> r.err, rules |-> rules, calls |-> calls]

\* a faulty negotiation step, which fails the handshake when no subprotocol
\* is agreed
negotiate_and_assemble_strict(request, key, extension, subprotocols) ==
    LET subprotocol == negotiate_request(subprotocols, request) IN
    IF subprotocol.tag = "Err" \/ subprotocol.val = None
    THEN Outcome(Err(ErrorWithCause("Protocol", "NoSubprotocol", None)),
                 7, <<"negotiate_request">>)
    ELSE
    LET extension_opt == negotiate_server(extension, request.headers) IN
    IF extension_opt.tag = "Err"
    THEN Outcome(Err(ErrorWithCause("Extension", extension_opt.err.cause,
                                    extension_opt.err.arg)),
                 7, <<"negotiate_request", "negotiate_server">>)
    ELSE
    LET mapped == request_try_map(request) IN
    IF mapped.tag = "Err"
    THEN Outcome(Err(mapped.err), 7, <<"negotiate_request", "negotiate_server", "try_map">>)
    ELSE Outcome(Ok([key |-> key,
                     request |-> mapped.val,
                     extension |-> IF extension_opt.val = None THEN None
                                   ELSE Some(extension_opt.val[1].ext),
                     subprotocol |-> subprotocol.val,
                     extension_header |-> IF extension_opt.val = None THEN None
                                          ELSE Some(extension_opt.val[1].header)]),
                 7, <<"negotiate_request", "negotiate_server", "try_map">>)

\* the negotiation and assembly part of parse_request, reached with the key
negotiate_and_assemble(request, key, extension, subprotocols) ==
    LET subprotocol == negotiate_request(subprotocols, request) IN
    IF subprotocol.tag = "Err"
    THEN Outcome(Err(subprotocol.err), 7, <<"negotiate_request">>)
    ELSE
    LET extension_opt == negotiate_server(extension, request.headers) IN
    IF extension_opt.tag = "Err"
    THEN Outcome(Err(ErrorWithCause("Extension", extension_opt.err.cause,
                                    extension_opt.err.arg)),
                 7, <<"negotiate_request", "negotiate_server">>)
    ELSE
    LET mapped == request_try_map(request) IN
    IF mapped.tag = "Err"
    THEN Outcome(Err(mapped.err), 7, <<"negotiate_request", "negotiate_server", "try_map">>)
    ELSE Outcome(Ok([key |-> key,
                     request |-> mapped.val,
                     extension |-> IF extension_opt.val = None THEN None
                                   ELSE Some(extension_opt.val[1].ext),
                     subprotocol |-> subprotocol.val,
                     extension_header |-> IF extension_opt.val = None THEN None
                                          ELSE Some(extension_opt.val[1].header)]),
                 7, <<"negotiate_request", "negotiate_server", "try_map">>)

\* a faulty parse_request, which checks the method before the version
parse_request_method_first(request, extension, subprotocols) ==
    IF IsErr(method_rule(request)) THEN Outcome(method_rule(request), 1, <<>>)
    ELSE IF IsErr(version_rule(request)) THEN Outcome(version_rule(request), 2, <<>>)
    ELSE IF IsErr(connection_rule(request)) THEN Outcome(connection_rule(request), 3, <<>>)
    ELSE IF IsErr(upgrade_rule(request)) THEN Outcome(upgrade_rule(request), 4, <<>>)
    ELSE IF IsErr(ws_version_rule(request)) THEN Outcome(ws_version_rule(request), 5, <<>>)
    ELSE IF IsErr(host_rule(request)) THEN Outcome(host_rule(request), 6, <<>>)
    ELSE LET key == get_header(request.headers, SEC_WEBSOCKET_KEY) IN
         IF key.tag = "Err" THEN Outcome(Err(key.err), 7, <<>>)
         ELSE negotiate_and_assemble(request, key.val, extension, subprotocols)

\* a faulty parse_request, which negotiates before it validates
parse_request_negotiate_first(request, extension, subprotocols) ==
    LET r == negotiate_and_assemble(request, <<>>, extension, subprotocols) IN
    IF IsErr(version_rule(request)) THEN Outcome(version_rule(request), 1, r.calls)
    ELSE IF IsErr(method_rule(request)) THEN Outcome(method_rule(request), 2, r.calls)
    ELSE IF IsErr(connection_rule(request)) THEN Outcome(connection_rule(request), 3, r.calls)
    ELSE IF IsErr(upgrade_rule(request)) THEN Outcome(upgrade_rule(request), 4, r.calls)
    ELSE IF IsErr(ws_version_rule(request)) THEN Outcome(ws_version_rule(request), 5, r.calls)
    ELSE IF IsErr(host_rule(request)) THEN Outcome(host_rule(request), 6, r.calls)
    ELSE LET key == get_header(request.headers, SEC_WEBSOCKET_KEY) IN
         IF key.tag = "Err" THEN Outcome(Err(key.err), 7, r.calls)
         ELSE negotiate_and_assemble(request, key.val, extension, subprotocols)

\* a faulty parse_request, which negotiates before it looks for the key
parse_request_key_last(request, extension, subprotocols) ==
    IF IsErr(version_rule(request)) THEN Outcome(version_rule(request), 1, <<>>)
    ELSE IF IsErr(method_rule(request)) THEN Outcome(method_rule(request), 2, <<>>)
    ELSE IF IsErr(connection_rule(request)) THEN Outcome(connection_rule(request), 3, <<>>)
    ELSE IF IsErr(upgrade_rule(request)) THEN Outcome(upgrade_rule(request), 4, <<>>)
    ELSE IF IsErr(ws_version_rule(request)) THEN Outcome(ws_version_rule(request), 5, <<>>)
    ELSE IF IsErr(host_rule(request)) THEN Outcome(host_rule(request), 6, <<>>)
    ELSE LET key == get_header(request.headers, SEC_WEBSOCKET_KEY)
             r == negotiate_and_assemble(request, key.val, extension, subprotocols)
         IN IF IsErr(r) THEN r
            ELSE IF key.tag = "Err" THEN Outcome(Err(key.err), 7, r.calls)
            ELSE r

\* parse_request: the rules in the order of the code, each returning early
parse_request(request, extension, subprotocols) ==
    IF IsErr(version_rule(request)) THEN Outcome(version_rule(request), 1, <<>>)
    ELSE IF IsErr(method_rule(request)) THEN Outcome(method_rule(request), 2, <<>>)
    ELSE IF IsErr(connection_rule(request)) THEN Outcome(connection_rule(request), 3, <<>>)
    ELSE IF IsErr(upgrade_rule(request)) THEN Outcome(upgrade_rule(request), 4, <<>>)
    ELSE IF IsErr(ws_version_rule(request)) THEN Outcome(ws_version_rule(request), 5, <<>>)
    ELSE IF IsErr(host_rule(request)) THEN Outcome(host_rule(request), 6, <<>>)
    ELSE LET key == get_header(request.headers, SEC_WEBSOCKET_KEY) IN
         IF key.tag = "Err" THEN Outcome(Err(key.err), 7, <<>>)
         ELSE negotiate_and_assemble(request, key.val, extension, subprotocols)

\* a faulty check_partial_request, which compares the method with "get"
\* byte for byte
check_partial_request_exact(request) ==
    IF request.version # None /\ request.version # Some(HTTP_VERSION_INT)
    THEN Err(HttpVersionError(request.version))
    ELSE IF request.method # None /\ request.method[1] # METHOD_GET
    THEN Err(HttpMethodError(request.method))
    ELSE Ok(NoValue)

check_partial_request(request) ==
    IF request.version # None /\ request.version # Some(HTTP_VERSION_INT)
    THEN Err(HttpVersionError(request.version))
    ELSE IF request.method # None /\ ~EqIgnoreAsciiCase(request.method[1], METHOD_GET)
    THEN Err(HttpMethodError(request.method))
    ELSE Ok(NoValue)

\* ParseResult and the decoder's Result<Option<(HandshakeResult, usize)>>:
\* tag is "Complete", "Partial" or "Err"; rules and calls are those of the
\* parse_request the call made, if it made one
Complete(r, count, rules, calls) ==
    [tag |-> "Complete", val |-> r, count |-> count, err |-> NoError,
     rules |-> rules, calls |-> calls]
Partial == [tag |-> "Partial", val |-> NoValue, count |-> 0, err |-> NoError,
            rules |-> 0, calls |-> <<>>]
Failed(e, rules, calls) ==
    [tag |-> "Err", val |-> NoValue, count |-> 0, err |-> e,
     rules |-> rules, calls |-> calls]

\* a faulty try_parse_request, which validates whatever the parser has
\* made of the buffer, complete or not
try_parse_request_eager(parsed, extension, subprotocols) ==
    IF parsed.st \in {"Complete", "Partial"} THEN
        With(parse_request(parsed.request, extension, subprotocols), LAMBDA r :
        IF IsErr(r) THEN Failed(r.err, r.rules, r.calls)
        ELSE Complete(r.val, parsed.count, r.rules, r.calls))
    ELSE Failed(ErrorWithCause("Http", parsed.err, None), 0, <<>>)

\* try_parse_request, given what request.parse(buffer) returned
try_parse_request(parsed, extension, subprotocols) ==
    IF parsed.st = "Complete" THEN
        With(parse_request(parsed.request, extension, subprotocols), LAMBDA r :
        IF IsErr(r) THEN Failed(r.err, r.rules, r.calls)
        ELSE Complete(r.val, parsed.count, r.rules, r.calls))
    ELSE IF parsed.st = "Partial" THEN Partial
    ELSE Failed(ErrorWithCause("Http", parsed.err, None), 0, <<>>)

\* a faulty decode, which asks for more data whenever the request is
\* incomplete, without looking at what was parsed
decode_wait(buf, extension, subprotocols) ==
    With(RequestParse(buf), LAMBDA parsed :
    try_parse_request(parsed, extension, subprotocols))

\* RequestParser::decode: Complete is Ok(Some((result, count))), Partial is
\* Ok(None)
decode(buf, extension, subprotocols) ==
    With(RequestParse(buf), LAMBDA parsed :
    With(try_parse_request(parsed, extension, subprotocols), LAMBDA t :
    IF t.tag = "Partial" THEN
        LET c == check_partial_request(parsed.request) IN
        IF IsErr(c) THEN Failed(c.err, 0, <<>>) ELSE Partial
    ELSE t))

\* ------------------------------------------------------------------ inputs

\* the bytes of the texts the requests of the model are written with
B(s) ==
    CASE s = "GET" -> <<71, 69, 84>>
      [] s = "gEt" -> <<103, 69, 116>>
      [] s = "POST" -> <<80, 79, 83, 84>>
      [] s = "/" -> <<47>>
      [] s = "a/b" -> <<97, 47, 98>>
      [] s = "HTTP/1.1" -> <<72, 84, 84, 80, 47, 49, 46, 49>>
      [] s = "HTTP/1.0" -> <<72, 84, 84, 80, 47, 49, 46, 48>>
      [] s = "Host" -> <<72, 111, 115, 116>>
      [] s = "host" -> <<104, 111, 115, 116>>
      [] s = "Connection" -> <<67, 111, 110, 110, 101, 99, 116, 105, 111, 110>>
      [] s = "Upgrade" -> <<85, 112, 103, 114, 97, 100, 101>>
      [] s = "Sec-WebSocket-Version" ->
            <<83, 101, 99, 45, 87, 101, 98, 83, 111, 99, 107, 101, 116, 45,
              86, 101, 114, 115, 105, 111, 110>>
      [] s = "Sec-WebSocket-Key" ->
            <<83, 101, 99, 45, 87, 101, 98, 83, 111, 99, 107, 101, 116, 45,
              75, 101, 121>>
      [] s = "Sec-WebSocket-Protocol" ->
            <<83, 101, 99, 45, 87, 101, 98, 83, 111, 99, 107, 101, 116, 45,
              80, 114, 111, 116, 111, 99, 111, 108>>
      [] s = "Sec-WebSocket-Extensions" ->
            <<83, 101, 99, 45, 87, 101, 98, 83, 111, 99, 107, 101, 116, 45,
              69, 120, 116, 101, 110, 115, 105, 111, 110, 115>>
      [] s = "h" -> <<104>>
      [] s = "upgrade" -> <<117, 112, 103, 114, 97, 100, 101>>
      [] s = "keep-alive, Upgrade" ->
            <<107, 101, 101, 112, 45, 97, 108, 105, 118, 101, 44, 32,
              85, 112, 103, 114, 97, 100, 101>>
      [] s = "keep-alive" -> <<107, 101, 101, 112, 45, 97, 108, 105, 118, 101>>
      [] s = "websocket" -> <<119, 101, 98, 115, 111, 99, 107, 101, 116>>
      [] s = "WebSocket" -> <<87, 101, 98, 83, 111, 99, 107, 101, 116>>
      [] s = "h2c" -> <<104, 50, 99>>
      [] s = "13" -> <<49, 51>>
      [] s = "12" -> <<49, 50>>
      [] s = "k1" -> <<107, 49>>
      [] s = "k2" -> <<107, 50>>
      [] s = "chat" -> <<99, 104, 97, 116>>
      [] s = "echo" -> <<101, 99, 104, 111>>
      [] s = "mqtt" -> <<109, 113, 116, 116>>
      [] s = "echo, chat" -> <<101, 99, 104, 111, 44, 32, 99, 104, 97, 116>>
      [] s = "d" -> <<100>>
      [] s = "x" -> <<120>>
      [] s = "UPGRADE" -> <<85, 80, 71, 82, 65, 68, 69>>
      [] s = "keep-alive,upgrade" -> <<107, 101, 101, 112, 45, 97, 108, 105, 118, 101, 44, 117, 112, 103, 114, 97, 100, 101>>
      [] s = "upgraded" -> <<117, 112, 103, 114, 97, 100, 101, 100>>
      [] s = "keep-alive;upgrade" -> <<107, 101, 101, 112, 45, 97, 108, 105, 118, 101, 59, 117, 112, 103, 114, 97, 100, 101>>
      [] s = "up grade" -> <<117, 112, 32, 103, 114, 97, 100, 101>>
      [] s = "keep-alive,\tupgrade" -> <<107, 101, 101, 112, 45, 97, 108, 105, 118, 101, 44, 9, 117, 112, 103, 114, 97, 100, 101>>
      [] s = "close , UpGrade ,x" -> <<99, 108, 111, 115, 101, 32, 44, 32, 85, 112, 71, 114, 97, 100, 101, 32, 44, 120>>
      [] s = "" -> <<>>

CRLF == <<CR, LF>>

\* a header line of a request, and a request, as texts
Line(name, value) == [name |-> name, value |-> value]

RECURSIVE RenderLines(_)
RenderLines(lines) ==
    IF lines = <<>> THEN <<>>
    ELSE B(Head(lines).name) \o <<COLON, SP>> \o B(Head(lines).value) \o CRLF
         \o RenderLines(Tail(lines))

\* the bytes a client sends for a request
Render(req) ==
    B(req.method) \o <<SP>> \o B(req.path) \o <<SP>> \o B(req.version) \o CRLF
    \o RenderLines(req.lines) \o CRLF

\* the first bytes of a WebSocket frame that may follow the request
FRAME == <<129, 0>>

Request(method, path, version, lines) ==
    [method |-> method, path |-> path, version |-> version, lines |-> lines]

HostGood == <<Line("Host", "h")>>
ConnectionGood == <<Line("Connection", "upgrade")>>
UpgradeGood == <<Line("Upgrade", "websocket")>>
KeyGood == <<Line("Sec-WebSocket-Key", "k1")>>
VersionGood == <<Line("Sec-WebSocket-Version", "13")>>

\* the choices for each header of a request: absent, right, wrong
HostLines == {<<>>, HostGood, <<Line("host", "h")>>}
ConnectionLines ==
    {<<>>, ConnectionGood, <<Line("Connection", "keep-alive, Upgrade")>>,
     <<Line("Connection", "keep-alive")>>}
UpgradeLines ==
    {<<>>, UpgradeGood, <<Line("Upgrade", "WebSocket")>>, <<Line("Upgrade", "h2c")>>}
KeyLines == {<<>>, KeyGood}
VersionLines == {<<>>, VersionGood, <<Line("Sec-WebSocket-Version", "12")>>}
ProtocolLines ==
    {<<>>, <<Line("Sec-WebSocket-Protocol", "echo, chat")>>,
     <<Line("Sec-WebSocket-Protocol", "mqtt")>>,
     <<Line("Sec-WebSocket-Protocol", "echo"), Line("Sec-WebSocket-Protocol", "chat")>>}
ExtensionLines ==
    {<<>>, <<Line("Sec-WebSocket-Extensions", "d")>>,
     <<Line("Sec-WebSocket-Extensions", "x")>>}
\* a header given twice with different values
RepeatedLines ==
    {<<Line("Upgrade", "h2c"), Line("Upgrade", "websocket")>>,
     <<Line("Sec-WebSocket-Version", "12"), Line("Sec-WebSocket-Version", "13")>>,
     <<Line("Sec-WebSocket-Key", "k1"), Line("Sec-WebSocket-Key", "k2")>>,
     <<Line("Connection", "keep-alive"), Line("Connection", "upgrade")>>,
     <<Line("Upgrade", "websocket"), Line("Upgrade", "h2c")>>}

Registries == {<<"chat", "echo">>, <<"echo", "chat">>, <<"chat">>, <<>>}
Providers == {"NoExt", "Ext"}

\* an input of a run: the request, the bytes that follow it on the wire,
\* and the parser's registry and extension provider
Input(req, trailing, registry, provider) ==
    [req |-> req, trailing |-> trailing, registry |-> registry, provider |-> provider]

\* requests that differ in what the validation rules look at
ValidationInputs ==
    {Input(Request(m, "/", v, h \o u \o c \o k \o w), <<>>, <<"chat", "echo">>, "NoExt") :
        m \in {"GET", "gEt", "POST"}, v \in {"HTTP/1.1", "HTTP/1.0"},
        h \in HostLines, u \in UpgradeLines, c \in ConnectionLines,
        k \in KeyLines, w \in VersionLines}

\* requests that pass validation and differ in what is negotiated
NegotiationInputs ==
    {Input(Request("GET", p, "HTTP/1.1",
                   HostGood \o UpgradeGood \o c \o KeyGood \o VersionGood \o s \o e),
           t, r, x) :
        p \in {"/", "a/b"}, c \in {ConnectionGood, <<Line("Connection", "keep-alive, Upgrade")>>},
        s \in ProtocolLines, e \in ExtensionLines, t \in {<<>>, FRAME},
        r \in Registries, x \in Providers}

\* requests that repeat a header
RepeatedInputs ==
    {Input(Request("GET", "/", "HTTP/1.1",
                   HostGood \o UpgradeGood \o ConnectionGood \o KeyGood \o VersionGood \o d),
           <<>>, <<"chat", "echo">>, "NoExt") : d \in RepeatedLines}
    \cup
    {Input(Request("GET", "/", "HTTP/1.1",
                   d \o HostGood \o UpgradeGood \o ConnectionGood \o KeyGood \o VersionGood),
           <<>>, <<"chat", "echo">>, "NoExt") : d \in RepeatedLines}

\* the values of a Connection header: one token or several, separated by
\* commas, spaces, both, a semicolon or a tab, in either case
ConnectionValues ==
    {"upgrade", "Upgrade", "UPGRADE", "keep-alive, Upgrade", "keep-alive",
     "keep-alive,upgrade", "upgraded", "keep-alive;upgrade", "up grade",
     "keep-alive,\tupgrade", "close , UpGrade ,x", ""}

\* requests that differ in the value of their Connection header
ConnectionInputs ==
    {Input(Request("GET", "/", "HTTP/1.1",
                   HostGood \o UpgradeGood \o <<Line("Connection", c)>> \o KeyGood
                   \o VersionGood),
           <<>>, <<"chat", "echo">>, "NoExt") : c \in ConnectionValues}

\* requests that may fail at more than one stage: validation, extension
\* negotiation, conversion of the target
StagedInputs ==
    {Input(Request(m, p, "HTTP/1.1",
                   HostGood \o UpgradeGood \o ConnectionGood \o k \o w
                   \o <<Line("Sec-WebSocket-Protocol", "echo")>> \o e),
           <<>>, <<"chat", "echo">>, "Ext") :
        m \in {"GET", "POST"}, p \in {"/", "a/b"}, k \in KeyLines, w \in VersionLines,
        e \in ExtensionLines}

DecodeInputs ==
    ValidationInputs \cup NegotiationInputs \cup RepeatedInputs \cup StagedInputs
    \cup ConnectionInputs

\* requests fed to the driver in pieces
StreamInputs ==
    {Input(Request(m, "/", v, HostGood \o u \o ConnectionGood \o KeyGood \o VersionGood),
           t, <<"chat", "echo">>, "NoExt") :
        m \in {"GET", "gEt", "POST"}, v \in {"HTTP/1.1", "HTTP/1.0"},
        u \in {UpgradeGood, <<>>}, t \in {<<>>, FRAME}}
    \cup
    {Input(Request("GET", "/", "HTTP/1.1",
                   HostGood \o UpgradeGood \o <<Line("Connection", "keep-alive, Upgrade")>>
                   \o KeyGood \o VersionGood \o s \o e),
           <<>>, <<"chat", "echo">>, "Ext") :
        s \in {<<Line("Sec-WebSocket-Protocol", "echo, chat")>>},
        e \in ExtensionLines}

\* ------------------------------------------------------------------- state

VARIABLES
    input,          \* the input of the run (never changes): the request, what
                    \* the buffer held at the start, where the transport closes
    socket,         \* the bytes the transport has still to deliver
    buffer,         \* io.buffer
    cursor,         \* the number of bytes io.advance has consumed
    pc,             \* where StreamingParser::parse is: "read", "decode", "done"
    out,            \* what parse returned: tag "Pending", then "Ok" or "Err"
    last,           \* the tag of the last result of parser.decode
    advances,       \* the number of calls of io.advance
    rules,          \* the number of validation rules the last decode evaluated
    calls,          \* the collaborators the decode cycles called, in order
    subprotocols,   \* parser.subprotocols
    extension,      \* parser.extension
    chunked,        \* whether reads may deliver the bytes in pieces
    single,         \* whether every read so far delivered exactly one byte
    wpc,            \* where write_response is: "idle", "call", "write", "done"
    wcall,          \* the arguments of write_response: buf as given, status, headers, body
    wbuf,           \* the buffer given to write_response
    reserved,       \* the additional capacity write_response reserved
    stream,         \* the bytes written to the stream
    wout,           \* what write_response returned: tag "Pending", "Ok", "Err"
    cpc,            \* where a header conversion is: "idle", "call", "done"
    raw,            \* the slice of parsed headers given to try_map
    converted       \* what try_map returned: tag "Pending", "Ok", "Err"

hvars == <<input, socket, buffer, cursor, pc, out, last, advances, rules, calls,
           subprotocols, extension, chunked, single>>
wvars == <<wpc, wcall, wbuf, reserved, stream, wout>>
cvars == <<cpc, raw, converted>>
vars == <<hvars, wvars, cvars>>

\* the bytes on the wire for an input
Wire(in) == Render(in.req) \o in.trailing

Pending == [tag |-> "Pending", val |-> NoValue, err |-> NoError]
IoError == ErrorWithCause("IO", "Read", None)

\* StreamingParser::new(io, parser), with `held` bytes of the wire already in
\* io.buffer and a transport that closes `lost` bytes before the wire's end
InitParse(in, held, lost, pieces) ==
    /\ input = [req |-> in.req, trailing |-> in.trailing, registry |-> in.registry,
                provider |-> in.provider, held |-> held, lost |-> lost]
    /\ buffer = SubSeq(Wire(in), 1, held)
    /\ socket = SubSeq(Wire(in), held + 1, Len(Wire(in)) - lost)
    /\ cursor = 0
    /\ pc = "read"
    /\ out = Pending
    /\ last = "None"
    /\ advances = 0
    /\ rules = 0
    /\ calls = <<>>
    /\ subprotocols = [i \in 1..Len(in.registry) |-> B(in.registry[i])]
    /\ extension = in.provider
    /\ chunked = pieces
    /\ single = TRUE

\* the largest piece a read delivers, unless it delivers all that is left
MaxChunk == 3

ChunkSizes == IF chunked THEN (1..MaxChunk) \cup {Len(socket)} ELSE {Len(socket)}

\* io.read().await succeeding: the transport appends bytes to io.buffer
Read(k) ==
    /\ pc = "read"
    /\ socket # <<>>
    /\ k >= 1 /\ k <= Len(socket)
    /\ buffer' = buffer \o SubSeq(socket, 1, k)
    /\ socket' = From(socket, k + 1)
    /\ pc' = "decode"
    /\ single' = (single /\ k = 1)
    /\ UNCHANGED <<input, cursor, out, last, advances, rules, calls, subprotocols,
                   extension, chunked>>
    /\ UNCHANGED <<wvars, cvars>>

\* a faulty driver, which notes a failed read and reads again
ReadFail_retry ==
    /\ pc = "read"
    /\ pc' = "read"
    /\ out' = [tag |-> "Err", val |-> NoValue, err |-> IoError]
    /\ UNCHANGED <<input, socket, buffer, cursor, last, advances, rules, calls,
                   subprotocols, extension, chunked, single>>
    /\ UNCHANGED <<wvars, cvars>>

\* a faulty driver, which goes on to decode what the buffer holds when a
\* read fails
ReadFail_ignore ==
    /\ pc = "read"
    /\ IF buffer # <<>> /\ last = "None"
       THEN pc' = "decode" /\ out' = out
       ELSE pc' = "done" /\ out' = [tag |-> "Err", val |-> NoValue, err |-> IoError]
    /\ UNCHANGED <<input, socket, buffer, cursor, last, advances, rules, calls,
                   subprotocols, extension, chunked, single>>
    /\ UNCHANGED <<wvars, cvars>>

\* io.read().await? failing (a transport error, or EOF): parse returns it
ReadFail ==
    /\ pc = "read"
    /\ pc' = "done"
    /\ out' = [tag |-> "Err", val |-> NoValue, err |-> IoError]
    /\ UNCHANGED <<input, socket, buffer, cursor, last, advances, rules, calls,
                   subprotocols, extension, chunked, single>>
    /\ UNCHANGED <<wvars, cvars>>

\* io.advance(count)
advance(buf, count) == From(buf, count + 1)

\* a faulty driver, which drops the whole buffer when a value is decoded
Decode_drop_buffer ==
    /\ pc = "decode"
    /\ \E d \in {decode(buffer, extension, subprotocols)} :
        /\ last' = d.tag
        /\ rules' = d.rules
        /\ calls' = calls \o d.calls
        /\ IF d.tag = "Complete" THEN
                /\ buffer' = <<>>
                /\ cursor' = cursor + Len(buffer)
                /\ advances' = advances + 1
                /\ out' = [tag |-> "Ok", val |-> d.val, err |-> NoError]
                /\ pc' = "done"
           ELSE IF d.tag = "Partial" THEN
                /\ pc' = "read"
                /\ UNCHANGED <<buffer, cursor, advances, out>>
           ELSE
                /\ out' = [tag |-> "Err", val |-> NoValue, err |-> d.err]
                /\ pc' = "done"
                /\ UNCHANGED <<buffer, cursor, advances>>
    /\ UNCHANGED <<input, socket, subprotocols, extension, chunked, single>>
    /\ UNCHANGED <<wvars, cvars>>

\* one pass of the match in StreamingParser::parse
Decode ==
    /\ pc = "decode"
    /\ \E d \in {decode(buffer, extension, subprotocols)} :
        /\ last' = d.tag
        /\ rules' = d.rules
        /\ calls' = calls \o d.calls
        /\ IF d.tag = "Complete" THEN
                /\ buffer' = advance(buffer, d.count)
                /\ cursor' = cursor + d.count
                /\ advances' = advances + 1
                /\ out' = [tag |-> "Ok", val |-> d.val, err |-> NoError]
                /\ pc' = "done"
           ELSE IF d.tag = "Partial" THEN
                /\ pc' = "read"
                /\ UNCHANGED <<buffer, cursor, advances, out>>
           ELSE
                /\ out' = [tag |-> "Err", val |-> NoValue, err |-> d.err]
                /\ pc' = "done"
                /\ UNCHANGED <<buffer, cursor, advances>>
    /\ UNCHANGED <<input, socket, subprotocols, extension, chunked, single>>
    /\ UNCHANGED <<wvars, cvars>>

\* ----------------------------------------------------------- write_response

\* StatusCode::as_str: the three decimal digits of the code
StatusStr(code) == <<48 + (code \div 100), 48 + ((code \div 10) % 10), 48 + (code % 10)>>

\* StatusCode::canonical_reason, for the codes of the model
canonical_reason(code) ==
    CASE code = 101 -> Some(<<83, 119, 105, 116, 99, 104, 105, 110, 103, 32,
                              80, 114, 111, 116, 111, 99, 111, 108, 115>>)
      [] code = 400 -> Some(<<66, 97, 100, 32, 82, 101, 113, 117, 101, 115, 116>>)
      [] OTHER -> None

RECURSIVE HeadersLen(_)
HeadersLen(headers) ==
    IF headers = <<>> THEN 0
    ELSE Len(Head(headers).name) + Len(Head(headers).value) + STATUS_TERMINATOR_LEN
         + HeadersLen(Tail(headers))

\* the argument of buf.reserve
ReserveLen(status, headers) ==
    LET version_count == Len(HTTP_VERSION)
        status_bytes == StatusStr(status)
        reason_len == IF canonical_reason(status) # None
                      THEN Len(canonical_reason(status)[1]) + Len(TERMINATOR_NO_HEADERS)
                      ELSE Len(TERMINATOR_WITH_HEADER)
        headers_len == HeadersLen(headers)
        terminator_len == IF headers = <<>> THEN Len(TERMINATOR_NO_HEADERS)
                          ELSE Len(TERMINATOR_WITH_HEADER)
    IN version_count + Len(status_bytes) + reason_len + headers_len + terminator_len

\* the bytes the loop over the header map puts
RECURSIVE PutHeaders(_)
PutHeaders(headers) ==
    IF headers = <<>> THEN <<>>
    ELSE Head(headers).name \o <<COLON, SP>> \o Head(headers).value \o <<CR, LF>>
         \o PutHeaders(Tail(headers))

\* a faulty write_response, which appends to what the buffer holds
write_response_append(buf, status, headers, body) ==
    LET reason == canonical_reason(status)
    IN buf
       \o HTTP_VERSION
       \o StatusStr(status)
       \o (IF reason # None THEN <<SP>> \o reason[1] \o <<SP, CR, LF>> ELSE <<CR, LF>>)
       \o PutHeaders(headers)
       \o (IF body # None THEN body[1] ELSE <<>>)
       \o (IF headers = <<>> THEN TERMINATOR_NO_HEADERS ELSE TERMINATOR_WITH_HEADER)

\* the contents of buf when write_response has serialized the response:
\* buf.clear(), then the put_slice calls in order
write_response(buf, status, headers, body) ==
    LET cleared == <<>>
        reason == canonical_reason(status)
    IN cleared
       \o HTTP_VERSION
       \o StatusStr(status)
       \o (IF reason # None THEN <<SP>> \o reason[1] \o <<SP, CR, LF>> ELSE <<CR, LF>>)
       \o PutHeaders(headers)
       \o (IF body # None THEN body[1] ELSE <<>>)
       \o (IF headers = <<>> THEN TERMINATOR_NO_HEADERS ELSE TERMINATOR_WITH_HEADER)

\* the responses of the model: header maps in iteration order
HeaderMaps ==
    LET up == [name |-> UPGRADE, value |-> WEBSOCKET_STR]
        co == [name |-> CONNECTION, value |-> <<85, 112, 103, 114, 97, 100, 101>>]
        ac == [name |-> <<115, 101, 99, 45, 119, 101, 98, 115, 111, 99, 107, 101, 116, 45,
                          97, 99, 99, 101, 112, 116>>,
               value |-> <<115, 51, 112, 80, 76, 77, 66, 105, 84, 120, 97, 81, 57, 107,
                           89, 71, 122, 122, 104, 90, 82, 98, 75, 43, 120, 79, 111, 61>>]
        em == [name |-> HOST, value |-> <<>>]
    IN {<<>>, <<up>>, <<up, co, ac>>, <<co, up>>, <<em>>}
Statuses == {101, 400, 599}
Bodies == {None, Some(<<>>), Some(<<111, 107>>), Some(<<13, 10>>)}
PriorBuffers == {<<>>, <<120, 13, 10>>}

\* the handshake driver at rest, while a response is written
IdleParse ==
    /\ input = Input(Request("GET", "/", "HTTP/1.1", <<>>), <<>>, <<>>, "NoExt")
    /\ socket = <<>> /\ buffer = <<>> /\ cursor = 0 /\ pc = "idle"
    /\ out = Pending /\ last = "None" /\ advances = 0 /\ rules = 0 /\ calls = <<>>
    /\ subprotocols = <<>> /\ extension = "NoExt" /\ chunked = FALSE /\ single = TRUE

\* the encoder at rest, while a request is parsed
IdleWrite ==
    /\ wpc = "idle"
    /\ wcall = [buf |-> <<>>, status |-> 101, headers |-> <<>>, body |-> None]
    /\ wbuf = <<>> /\ reserved = 0 /\ stream = <<>> /\ wout = Pending

\* write_response up to the await: the buffer is cleared, sized and filled
Serialize ==
    /\ wpc = "call"
    /\ reserved' = ReserveLen(wcall.status, wcall.headers)
    /\ wbuf' = write_response(wbuf, wcall.status, wcall.headers, wcall.body)
    /\ wpc' = "write"
    /\ UNCHANGED <<wcall, stream, wout>>
    /\ UNCHANGED <<hvars, cvars>>

\* buffered.write().await succeeding: the buffer goes to the stream
Flush ==
    /\ wpc = "write"
    /\ stream' = stream \o wbuf
    /\ wout' = [tag |-> "Ok", val |-> NoValue, err |-> NoError]
    /\ wpc' = "done"
    /\ UNCHANGED <<wcall, wbuf, reserved>>
    /\ UNCHANGED <<hvars, cvars>>

\* buffered.write().await failing
FlushFail ==
    /\ wpc = "write"
    /\ wout' = [tag |-> "Err", val |-> NoValue, err |-> ErrorWithCause("IO", "Write", None)]
    /\ wpc' = "done"
    /\ UNCHANGED <<wcall, wbuf, reserved, stream>>
    /\ UNCHANGED <<hvars, cvars>>

\* --------------------------------------------------------- header conversion

\* the entries of the raw header lists of the model: names that are tokens
\* in either case, a name with a space, one with a control character and
\* an empty one; values with a tab, with the obsolete-text byte 0xFF and
\* with a two-byte character, and values with NUL or DEL
RawEntries ==
    {[name |-> <<72, 111, 115, 116>>, value |-> <<104>>],
     [name |-> <<117, 112, 103, 114, 97, 100, 101>>, value |-> WEBSOCKET_STR],
     [name |-> <<72, 79, 83, 84>>, value |-> <<97, 9, 98>>],
     [name |-> <<120, 45, 111>>, value |-> <<255>>],
     [name |-> <<98, 97, 100, 32, 110, 97, 109, 101>>, value |-> <<104>>],
     [name |-> <<120, 1>>, value |-> <<255>>],
     [name |-> <<>>, value |-> <<104>>],
     [name |-> <<120, 45, 110>>, value |-> <<97, 0>>],
     [name |-> <<120, 45, 100>>, value |-> <<195, 169, 127>>]}

\* the longest raw header list
MaxRaw == 3

RawLists == UNION {[1..n -> RawEntries] : n \in 0..MaxRaw}

\* no conversion under way, while a request is parsed or a response written
Unconverted == [tag |-> "Pending", val |-> <<>>, err |-> NoError]
IdleConvert == cpc = "idle" /\ raw = <<>> /\ converted = Unconverted

\* headers.try_map()
TryMapHeaders ==
    /\ cpc = "call"
    /\ converted' = headers_try_map(raw)
    /\ cpc' = "done"
    /\ UNCHANGED raw
    /\ UNCHANGED <<hvars, wvars>>

\* ---------------------------------------------------------- specifications

Next ==
    \/ \E k \in ChunkSizes : Read(k)
    \/ ReadFail
    \/ Decode

\* the transport delivers the whole wire, or closes before the blank line
\* that ends the request
Truncations == {0, Len(CRLF)}

\* the driver fed in pieces
Init ==
    /\ \E in \in StreamInputs : \E held \in {0, Len(Render(in.req))} :
       \E lost \in (IF in.trailing = <<>> THEN Truncations ELSE {0}) :
            InitParse(in, held, lost, TRUE)
    /\ IdleWrite /\ IdleConvert
Spec == Init /\ [][Next]_vars

\* the decoder given each request whole
InitDecode == (\E in \in DecodeInputs : InitParse(in, 0, 0, FALSE)) /\ IdleWrite /\ IdleConvert
SpecDecode == InitDecode /\ [][Next]_vars

\* the driver under the assumption that a pending read completes or fails
SpecLive == Spec /\ WF_vars(Next)

\* the response encoder
InitWrite ==
    /\ IdleParse /\ IdleConvert
    /\ wpc = "call"
    /\ \E prior \in PriorBuffers, st \in Statuses, h \in HeaderMaps, b \in Bodies :
            wcall = [buf |-> prior, status |-> st, headers |-> h, body |-> b]
    /\ wbuf = wcall.buf
    /\ reserved = 0 /\ stream = <<>> /\ wout = Pending
NextWrite == Serialize \/ Flush \/ FlushFail
SpecWrite == InitWrite /\ [][NextWrite]_vars

\* the conversion of a raw header list
InitConvert ==
    /\ IdleParse /\ IdleWrite
    /\ cpc = "call" /\ raw \in RawLists /\ converted = Unconverted
NextConvert == TryMapHeaders
SpecConvert == InitConvert /\ [][NextConvert]_vars

\* ------------------------------------------------------------------ claims

\* What the claims say of a request is read off its text, not off what the
\* parser made of its bytes.

\* the header lines of a request whose name is one of names
Among(req, names) == {i \in 1..Len(req.lines) : req.lines[i].name \in names}
\* the value of the first of them
FirstValue(req, names) ==
    req.lines[CHOOSE i \in Among(req, names) : \A j \in Among(req, names) : i <= j].value

\* the mandatory headers: the names a request may write each with, the
\* name the errors carry, and the values that satisfy its rule
MandatoryHeaders == {"connection", "upgrade", "version", "host", "key"}
ValueChecked == {"connection", "upgrade", "version"}
NamesOf(h) ==
    CASE h = "connection" -> {"Connection"}
      [] h = "upgrade" -> {"Upgrade"}
      [] h = "version" -> {"Sec-WebSocket-Version"}
      [] h = "host" -> {"Host", "host"}
      [] h = "key" -> {"Sec-WebSocket-Key"}
      [] h = "protocol" -> {"Sec-WebSocket-Protocol"}
      [] h = "extensions" -> {"Sec-WebSocket-Extensions"}
HeaderNameOf(h) ==
    CASE h = "connection" -> CONNECTION
      [] h = "upgrade" -> UPGRADE
      [] h = "version" -> SEC_WEBSOCKET_VERSION
      [] h = "host" -> HOST
      [] h = "key" -> SEC_WEBSOCKET_KEY
\* the pieces of a Connection value between its commas and spaces, told by
\* hand and written in lower case
ConnectionTokens(value) ==
    CASE value \in {"upgrade", "Upgrade", "UPGRADE"} -> {"upgrade"}
      [] value = "keep-alive, Upgrade" -> {"keep-alive", "", "upgrade"}
      [] value = "keep-alive" -> {"keep-alive"}
      [] value = "keep-alive,upgrade" -> {"keep-alive", "upgrade"}
      [] value = "upgraded" -> {"upgraded"}
      [] value = "keep-alive;upgrade" -> {"keep-alive;upgrade"}
      [] value = "up grade" -> {"up", "grade"}
      [] value = "keep-alive,\tupgrade" -> {"keep-alive", "\tupgrade"}
      [] value = "close , UpGrade ,x" -> {"close", "", "upgrade", "x"}
      [] value = "" -> {""}
Satisfies(h, value) ==
    CASE h = "connection" -> "upgrade" \in ConnectionTokens(value)
      [] h = "upgrade" -> value \in {"websocket", "WebSocket"}
      [] h = "version" -> value = "13"
      [] OTHER -> TRUE

Has(req, h) == Among(req, NamesOf(h)) # {}
HasSatisfying(req, h) ==
    \E i \in Among(req, NamesOf(h)) : Satisfies(h, req.lines[i].value)
\* the header is given once, with a value that satisfies its rule
Correct(req, h) ==
    /\ Cardinality(Among(req, NamesOf(h))) = 1
    /\ Satisfies(h, FirstValue(req, NamesOf(h)))

IsGet(req) == req.method \in {"GET", "gEt"}
Is11(req) == req.version = "HTTP/1.1"

\* parse returned what a decode cycle produced (not a failed read)
Decoded == pc = "done" /\ last \in {"Complete", "Err"}
Succeeded == pc = "done" /\ out.tag = "Ok"

\* the provider of the run cannot satisfy the extensions the request offers
ExtensionFails(in) ==
    /\ in.provider = "Ext"
    /\ Has(in.req, "extensions")
    /\ FirstValue(in.req, NamesOf("extensions")) # "d"

\* C1, as stated: every syntactically complete request that has method GET,
\* version HTTP/1.1, a Connection header with an upgrade token, Upgrade:
\* websocket, Sec-WebSocket-Version: 13, a Host header and a
\* Sec-WebSocket-Key header is decoded successfully, consuming the request,
\* and the key of the result is the bytes of its Sec-WebSocket-Key header.
C1_Listed(req) ==
    /\ req.method = "GET" /\ Is11(req)
    /\ HasSatisfying(req, "connection")
    /\ \E i \in Among(req, NamesOf("upgrade")) : req.lines[i].value = "websocket"
    /\ HasSatisfying(req, "version")
    /\ Has(req, "host") /\ Has(req, "key")
C1_AsStated ==
    (Decoded /\ C1_Listed(input.req)) =>
        /\ out.tag = "Ok"
        /\ cursor = Len(Render(input.req))
        /\ \E i \in Among(input.req, NamesOf("key")) :
                out.val.key = B(input.req.lines[i].value)

\* C1, amended: such a request is decoded successfully, and the key is the
\* bytes of its first Sec-WebSocket-Key header, provided the first
\* Connection, Upgrade and Sec-WebSocket-Version headers of the request are
\* the ones that satisfy the rules, the extension provider does not fail on
\* the request and the request target converts to a URI.
C1_Amended ==
    (/\ Decoded
     /\ C1_Listed(input.req)
     /\ \A h \in ValueChecked : Satisfies(h, FirstValue(input.req, NamesOf(h)))
     /\ ~ExtensionFails(input)
     /\ input.req.path = "/")
    =>  /\ out.tag = "Ok"
        /\ cursor = Len(Render(input.req))
        /\ out.val.key = B(FirstValue(input.req, NamesOf("key")))
C1_Witness ==
    /\ Succeeded /\ C1_Listed(input.req)
    /\ FirstValue(input.req, NamesOf("key")) = "k1"
    /\ \E i \in Among(input.req, NamesOf("key")) : input.req.lines[i].value = "k2"
    /\ out.val.key = B("k1")
    /\ cursor = Len(Render(input.req))

\* C2: a GET HTTP/1.1 request that omits exactly one mandatory header, the
\* others being correct, fails with the missing-header error naming that
\* header; one whose Connection, Upgrade or Sec-WebSocket-Version header has
\* a wrong value, the others being correct, fails with the invalid-header
\* error naming that header.
C2_MissingHeader ==
    (Decoded /\ IsGet(input.req) /\ Is11(input.req)) =>
        \A h \in MandatoryHeaders :
            /\ (/\ ~Has(input.req, h)
                /\ \A g \in MandatoryHeaders \ {h} : Correct(input.req, g))
               => (out.tag = "Err" /\ out.err = MissingHeaderError(HeaderNameOf(h)))
            /\ (/\ h \in ValueChecked
                /\ Cardinality(Among(input.req, NamesOf(h))) = 1
                /\ ~Satisfies(h, FirstValue(input.req, NamesOf(h)))
                /\ \A g \in MandatoryHeaders \ {h} : Correct(input.req, g))
               => (out.tag = "Err" /\ out.err = InvalidHeaderError(HeaderNameOf(h)))
C2_Witness ==
    /\ Decoded /\ IsGet(input.req) /\ Is11(input.req)
    /\ \A g \in MandatoryHeaders \ {"version"} : Correct(input.req, g)
    /\ Has(input.req, "version") /\ FirstValue(input.req, NamesOf("version")) = "12"
    /\ out.err = InvalidHeaderError(SEC_WEBSOCKET_VERSION)

\* C3: a complete request with method POST and otherwise valid version and
\* headers fails with the HTTP-method error naming POST, one with version
\* HTTP/1.0 and otherwise valid method and headers fails with the
\* HTTP-version error naming version 0; neither yields a HandshakeResult.
C3_MethodAndVersion ==
    (Decoded /\ \A g \in MandatoryHeaders : Correct(input.req, g)) =>
        /\ (input.req.method = "POST" /\ Is11(input.req))
           => (out = Err(HttpMethodError(Some(B("POST")))) /\ advances = 0)
        /\ (input.req.version = "HTTP/1.0" /\ IsGet(input.req))
           => (out = Err(HttpVersionError(Some(0))) /\ advances = 0)
C3_Witness ==
    /\ Decoded /\ \A g \in MandatoryHeaders : Correct(input.req, g)
    /\ input.req.method = "POST" /\ Is11(input.req)
    /\ buffer = Wire(input)
    /\ out.err.cause = "HttpMethod"

\* C4: the rules are applied in the order version, method, Connection,
\* Upgrade, Sec-WebSocket-Version, Host, Sec-WebSocket-Key; the error of a
\* complete request is that of the first rule it violates, and no rule
\* after that one is evaluated. A header rule is violated when the request
\* has no header of the name or the first header of the name has a value
\* the rule does not accept.
RuleOrder == <<"http-version", "method", "connection", "upgrade", "version", "host", "key">>
Violates(req, rule) ==
    CASE rule = "http-version" -> ~Is11(req)
      [] rule = "method" -> ~IsGet(req)
      [] OTHER -> ~Has(req, rule) \/ ~Satisfies(rule, FirstValue(req, NamesOf(rule)))
ErrorOf(req, rule) ==
    CASE rule = "http-version" -> HttpVersionError(Some(0))
      [] rule = "method" -> HttpMethodError(Some(B(req.method)))
      [] OTHER -> IF Has(req, rule) THEN InvalidHeaderError(HeaderNameOf(rule))
                  ELSE MissingHeaderError(HeaderNameOf(rule))
FirstViolated(req) ==
    CHOOSE k \in 1..Len(RuleOrder) :
        /\ Violates(req, RuleOrder[k])
        /\ \A j \in 1..(k - 1) : ~Violates(req, RuleOrder[j])
ViolatedRules(req) == {k \in 1..Len(RuleOrder) : Violates(req, RuleOrder[k])}
C4_FirstViolationWins ==
    (Decoded /\ ViolatedRules(input.req) # {}) =>
        /\ out = Err(ErrorOf(input.req, RuleOrder[FirstViolated(input.req)]))
        /\ rules = FirstViolated(input.req)
C4_Witness ==
    /\ Decoded
    /\ Cardinality(ViolatedRules(input.req)) >= 3
    /\ FirstViolated(input.req) = 4
    /\ rules = 4

\* a request the server accepts: GET, HTTP/1.1, every mandatory header
\* present and the first of each satisfying its rule, extensions the
\* provider can satisfy, a target that converts to a URI
ValidUpgrade(in) ==
    /\ IsGet(in.req) /\ Is11(in.req)
    /\ \A h \in MandatoryHeaders :
            Has(in.req, h) /\ Satisfies(h, FirstValue(in.req, NamesOf(h)))
    /\ ~ExtensionFails(in)
    /\ in.req.path = "/"

\* the decode of the whole wire of an input, as a single read delivers it
OneShot(in) ==
    decode(Wire(in), in.provider, [i \in 1..Len(in.registry) |-> B(in.registry[i])])

\* C5: for a valid upgrade request, parse returns the same HandshakeResult
\* and consumes the same number of bytes however the bytes are split across
\* the reads as when they arrive in a single read.
C5_SplitEqualsOneShot ==
    (Decoded /\ ValidUpgrade(input)) =>
        /\ OneShot(input).tag = "Complete"
        /\ out = [tag |-> "Ok", val |-> OneShot(input).val, err |-> NoError]
        /\ cursor = OneShot(input).count
        /\ cursor = Len(Render(input.req))
C5_Witness ==
    /\ Succeeded /\ ValidUpgrade(input)
    /\ single /\ socket = <<>> /\ cursor > 1 /\ buffer = <<>>
    /\ out.val.subprotocol = Some(B("chat"))

IsProperPrefix(a, b) == Len(a) < Len(b) /\ a = SubSeq(b, 1, Len(a))

\* C6: while the buffer holds a proper prefix of a valid upgrade request, a
\* decode cycle reports "not enough data" and the driver goes back to
\* reading, with nothing returned; a read then either delivers more bytes
\* or fails, and only a failed read ends the parse.
C6_TruncatedKeepsReading ==
    [][ (/\ ValidUpgrade(input)
         /\ cursor = 0
         /\ IsProperPrefix(buffer, Render(input.req)))
        =>  /\ (pc = "decode") =>
                    (pc' = "read" /\ last' = "Partial" /\ out' = Pending /\ buffer' = buffer)
            /\ (pc = "read") =>
                    \/ pc' = "decode" /\ out' = Pending /\ IsProperPrefix(buffer, buffer')
                    \/ pc' = "done" /\ out' = [tag |-> "Err", val |-> NoValue, err |-> IoError]
      ]_vars
C6_Witness ==
    /\ ValidUpgrade(input)
    /\ pc = "done" /\ out.err = IoError /\ last = "Partial"
    /\ Len(buffer) = Len(Render(input.req)) - 1

\* C7: the cursor is advanced once, by the count the decode step reported,
\* in the cycle where decode reports a complete value, which is what parse
\* returns; the bytes beyond the count stay in the buffer; a cycle that
\* reports "not enough data" or an error, a read and a failed read leave
\* the cursor where it is.
C7_AdvanceOnce ==
    /\ [](advances <= 1)
    /\ [][ LET d == decode(buffer, extension, subprotocols) IN
           IF pc = "decode" /\ d.tag = "Complete"
           THEN /\ cursor' = cursor + d.count
                /\ d.count = Len(Render(input.req)) - cursor
                /\ advances' = advances + 1
                /\ buffer' = SubSeq(buffer, d.count + 1, Len(buffer))
                /\ out' = [tag |-> "Ok", val |-> d.val, err |-> NoError]
                /\ pc' = "done"
           ELSE /\ cursor' = cursor /\ advances' = advances
                /\ (pc = "decode") => (buffer' = buffer /\ out'.tag # "Ok")
                /\ (pc = "read") => (buffer = SubSeq(buffer', 1, Len(buffer)))
         ]_vars
C7_Witness ==
    /\ Succeeded /\ advances = 1
    /\ buffer = FRAME /\ cursor = Len(Render(input.req))

\* C8: parse goes back to reading only when decode reports "not enough
\* data"; it ends exactly when decode reports a value or an error or a read
\* fails, and does nothing after that; and when every pending read
\* completes or fails, parse ends.
C8_Terminates ==
    /\ [][ /\ (pc = "decode" /\ pc' = "read") => last' = "Partial"
           /\ (pc = "decode" /\ last' = "Partial") => pc' = "read"
           /\ (pc' = "done") =>
                \/ pc = "decode" /\ last' \in {"Complete", "Err"}
                \/ pc = "read" /\ out'.err = IoError /\ buffer' = buffer
           /\ pc # "done"
         ]_vars
    /\ <>(pc = "done" /\ out.tag \in {"Ok", "Err"})
C8_Witness ==
    /\ pc = "done" /\ out.tag = "Err" /\ out.err = IoError
    /\ last = "Partial" /\ socket = <<>> /\ buffer # <<>>

\* the names a request offers, read off its text
NamesIn(value) ==
    CASE value = "echo, chat" -> {"echo", "chat"}
      [] OTHER -> {value}
OfferedNames(req) ==
    UNION {NamesIn(req.lines[i].value) : i \in Among(req, NamesOf("protocol"))}
\* the first registry entry that is offered, as an Option of its bytes
Agreed(in) ==
    LET hits == {k \in 1..Len(in.registry) : in.registry[k] \in OfferedNames(in.req)} IN
    IF hits = {} THEN None
    ELSE Some(B(in.registry[CHOOSE k \in hits : \A j \in hits : k <= j]))

\* C9: the agreed subprotocol is the first entry of the registry, in
\* registry order, that the client offers, whatever the order of the offer;
\* when no entry is offered nothing is agreed and the handshake succeeds.
C9_RegistryOrderWins ==
    /\ Succeeded => out.val.subprotocol = Agreed(input)
    /\ (Decoded /\ ValidUpgrade(input) /\ Agreed(input) = None) =>
            (out.tag = "Ok" /\ out.val.subprotocol = None)
C9_Witness ==
    /\ Succeeded
    /\ input.registry = <<"chat", "echo">>
    /\ \E i \in Among(input.req, NamesOf("protocol")) : input.req.lines[i].value = "echo, chat"
    /\ out.val.subprotocol = Some(B("chat"))

\* the response the claim describes, for the arguments of a call
CodeText(status) ==
    CASE status = 101 -> <<49, 48, 49>>
      [] status = 400 -> <<52, 48, 48>>
      [] status = 599 -> <<53, 57, 57>>
ExpectedResponse(call) ==
    <<72, 84, 84, 80, 47, 49, 46, 49, 32>> \o CodeText(call.status)
    \o (IF canonical_reason(call.status) = None THEN <<13, 10>>
        ELSE <<32>> \o canonical_reason(call.status)[1] \o <<32, 13, 10>>)
    \o Concat([i \in 1..Len(call.headers) |->
                call.headers[i].name \o <<58, 32>> \o call.headers[i].value \o <<13, 10>>])
    \o (IF call.body = None THEN <<>> ELSE call.body[1])
    \o (IF call.headers = <<>> THEN <<13, 10, 13, 10>> ELSE <<13, 10>>)
EndsWith(s, t) == Len(s) >= Len(t) /\ SubSeq(s, Len(s) - Len(t) + 1, Len(s)) = t

\* C10: whatever the buffer held, write_response leaves in it, and writes to
\* the stream, exactly the status line, one line per header in the map's
\* order, the body if given, and the terminator: CRLF CRLF for an empty
\* header map and CRLF otherwise; a response with a header and no body ends
\* with one blank line, not two.
C10_ResponseBytes ==
    /\ (wpc \in {"write", "done"}) => wbuf = ExpectedResponse(wcall)
    /\ (wpc = "done" /\ wout.tag = "Ok") => stream = ExpectedResponse(wcall)
    /\ (wpc \in {"write", "done"} /\ wcall.headers # <<>> /\ wcall.body = None) =>
            /\ EndsWith(wbuf, <<13, 10, 13, 10>>)
            /\ ~EndsWith(wbuf, <<13, 10, 13, 10, 13, 10>>)
C10_Witness ==
    /\ wpc = "done" /\ wout.tag = "Ok"
    /\ wcall.buf # <<>> /\ Len(wcall.headers) = 3 /\ wcall.body = None
    /\ wcall.status = 101
    /\ stream = ExpectedResponse(wcall)

\* write_response has cleared, sized and filled the buffer
Serialized == wpc \in {"write", "done"}

\* C11: the capacity write_response reserves before it serializes equals the
\* number of bytes it then writes into the buffer, for every status, header
\* map and body.
C11_ExactReserve == Serialized => reserved = Len(wbuf)

\* one header and no body: 55 bytes are reserved and 57 are written, the
\* two bytes of ": " being in no term of the estimate
C11_Short ==
    /\ Serialized
    /\ wcall.status = 101 /\ Len(wcall.headers) = 1 /\ wcall.body = None
    /\ wcall.headers[1].name = UPGRADE /\ wcall.headers[1].value = WEBSOCKET_STR
    /\ reserved = 55 /\ Len(wbuf) = 57

\* the status line and the header lines of the response for a call
HeadSection(call) ==
    <<72, 84, 84, 80, 47, 49, 46, 49, 32>> \o CodeText(call.status)
    \o (IF canonical_reason(call.status) = None THEN <<13, 10>>
        ELSE <<32>> \o canonical_reason(call.status)[1] \o <<32, 13, 10>>)
    \o Concat([i \in 1..Len(call.headers) |->
                call.headers[i].name \o <<58, 32>> \o call.headers[i].value \o <<13, 10>>])
BodyBytes(call) == IF call.body = None THEN <<>> ELSE call.body[1]
StartsWith(s, t) == Len(s) >= Len(t) /\ SubSeq(s, 1, Len(t)) = t

\* C12: in every serialized response the status line and the header lines
\* are followed by a blank line, and the body, when one is given, comes after
\* that blank line, whether the header map is empty or not.
C12_BodyAfterBlankLine ==
    Serialized => StartsWith(wbuf, HeadSection(wcall) \o <<13, 10>> \o BodyBytes(wcall))

\* a header and the body "ok": the body follows the header line directly and
\* the only CRLF after it ends the buffer
C12_BodyBeforeBlankLine ==
    /\ Serialized
    /\ Len(wcall.headers) = 1 /\ wcall.body = Some(<<111, 107>>)
    /\ wbuf = HeadSection(wcall) \o <<111, 107>> \o <<13, 10>>

\* the stage at which the decode of a complete request fails, read off the
\* request: validation, then extension negotiation (the registry of the
\* model never fails), then the conversion of the request
FailingStage(in) ==
    IF ViolatedRules(in.req) # {} THEN "validation"
    ELSE IF ExtensionFails(in) THEN "extension"
    ELSE IF in.req.path # "/" THEN "conversion"
    ELSE "none"
Position(s, x) == CHOOSE i \in 1..Len(s) : s[i] = x

NameIsToken(e) ==
    e.name \in {<<72, 111, 115, 116>>, <<117, 112, 103, 114, 97, 100, 101>>,
                <<72, 79, 83, 84>>, <<120, 45, 111>>, <<120, 45, 110>>, <<120, 45, 100>>}
ValueIsValid(e) == e.value \in {<<104>>, WEBSOCKET_STR, <<97, 9, 98>>, <<255>>}
LowerName(e) ==
    IF e.name \in {<<72, 111, 115, 116>>, <<72, 79, 83, 84>>} THEN <<104, 111, 115, 116>>
    ELSE e.name
Rendering(e) ==
    CASE e.name = <<98, 97, 100, 32, 110, 97, 109, 101>> ->            \* "bad name: h"
            <<98, 97, 100, 32, 110, 97, 109, 101, 58, 32, 104>>
      [] e.name = <<120, 1>> -> <<120, 1, 58, 32, 239, 191, 189>>      \* "x^A: U+FFFD"
      [] e.name = <<>> -> <<58, 32, 104>>                              \* ": h"
      [] e.name = <<120, 45, 110>> -> <<120, 45, 110, 58, 32, 97, 0>>  \* "x-n: a^@"
      [] e.name = <<120, 45, 100>> ->                                  \* "x-d: e-acute DEL"
            <<120, 45, 100, 58, 32, 195, 169, 127>>
Offending(list) == {i \in 1..Len(list) : ~NameIsToken(list[i]) \/ ~ValueIsValid(list[i])}
FirstOffending(list) == CHOOSE i \in Offending(list) : \A j \in Offending(list) : i <= j

\* C14: the conversion of a raw header list fails with the invalid-header
\* error carrying the "name: value" rendering of the first entry whose name
\* is not a header-name token or whose value is not a header value, when
\* there is such an entry; otherwise it succeeds with a map that holds every
\* name of the list.
C14_ConversionErrors ==
    (cpc = "done") =>
        IF Offending(raw) # {}
        THEN /\ converted.tag = "Err"
             /\ converted.err = ErrorWithCause("Http", "InvalidHeaderText",
                                               Some(Rendering(raw[FirstOffending(raw)])))
        ELSE /\ converted.tag = "Ok"
             /\ \A i \in 1..Len(raw) :
                    \E k \in 1..Len(converted.val) : converted.val[k].name = LowerName(raw[i])
C14_Witness ==
    /\ cpc = "done" /\ Len(raw) = 3
    /\ Offending(raw) = {2, 3}
    /\ raw[2].name = <<120, 1>> /\ raw[3].name = <<98, 97, 100, 32, 110, 97, 109, 101>>
    /\ converted.tag = "Err"
    /\ converted.err.arg = Some(<<120, 1, 58, 32, 239, 191, 189>>)

\* the number of bytes of a request up to the space that ends its method,
\* and up to the last byte of its version
MethodEnd(req) == Len(B(req.method)) + 1
VersionEnd(req) == MethodEnd(req) + Len(B(req.path)) + 1 + Len(B(req.version))
\* the buffer holds a part of the request of the run, and not all of it
Incomplete == cursor = 0 /\ IsProperPrefix(buffer, Render(input.req))
BadMethodSeen == Len(buffer) >= MethodEnd(input.req) /\ ~IsGet(input.req)
BadVersionSeen == Len(buffer) >= VersionEnd(input.req) /\ ~Is11(input.req)

\* C15: a decode cycle on an incomplete request whose fragment holds a
\* complete method other than GET (in any case) or a complete version other
\* than 1.1 returns the HTTP-method or the HTTP-version error in that cycle,
\* and the driver stops without reading again; a cycle on an incomplete
\* request whose method and version are absent or acceptable reports "not
\* enough data" and the driver reads again.
C15_FastFail ==
    [][ (pc = "decode" /\ Incomplete) =>
            IF BadMethodSeen \/ BadVersionSeen
            THEN /\ pc' = "done" /\ last' = "Err" /\ socket' = socket
                 /\ \/ BadMethodSeen
                       /\ out' = Err(HttpMethodError(Some(B(input.req.method))))
                    \/ BadVersionSeen /\ out' = Err(HttpVersionError(Some(0)))
            ELSE pc' = "read" /\ last' = "Partial" /\ out' = Pending
      ]_vars
C15_Witness ==
    /\ pc = "done" /\ last = "Err" /\ Incomplete
    /\ IsGet(input.req) /\ input.req.version = "HTTP/1.0"
    /\ Len(buffer) = VersionEnd(input.req)
    /\ socket # <<>>
    /\ out = Err(HttpVersionError(Some(0)))

\* C16: the Connection rule accepts a value exactly when one of the pieces
\* between its commas and spaces is "upgrade" in any case; a request whose
\* Connection header has no such piece fails with the invalid-header error
\* for Connection and one without a Connection header with the
\* missing-header error for Connection. The rule is reached by requests with
\* method GET and version HTTP/1.1 and reads the first Connection header.
C16_ConnectionRule ==
    (Decoded /\ IsGet(input.req) /\ Is11(input.req)) =>
        IF ~Has(input.req, "connection")
        THEN out = Err(MissingHeaderError(CONNECTION)) /\ rules = 3
        ELSE IF "upgrade" \in ConnectionTokens(FirstValue(input.req, NamesOf("connection")))
        THEN /\ out.tag = "Ok" \/ rules > 3
             /\ out.err \notin {MissingHeaderError(CONNECTION), InvalidHeaderError(CONNECTION)}
        ELSE out = Err(InvalidHeaderError(CONNECTION)) /\ rules = 3
C16_Witness ==
    /\ Succeeded
    /\ FirstValue(input.req, NamesOf("connection")) = "close , UpGrade ,x"
    /\ rules = 7

\* the bytes the transport delivers in the run, all of them
Delivered == IF last = "Complete" THEN Wire(input) ELSE buffer \o socket
\* what parse returns when a single read delivers them
InOneRead == decode(Delivered, extension, subprotocols)

\* C17: what parse returns, the HandshakeResult or the error of the rule
\* that failed, is what it returns when the same bytes arrive in a single
\* read, however the bytes are split across the reads.
C17_ChunkingIndependent ==
    Decoded =>
        /\ InOneRead.tag # "Partial"
        /\ (InOneRead.tag = "Complete") =>
                out = [tag |-> "Ok", val |-> InOneRead.val, err |-> NoError]
        /\ (InOneRead.tag = "Err") => out = Err(InOneRead.err)

\* POST / HTTP/1.0 read byte by byte: the method error is returned when
\* "POST " is in the buffer, where a single read gives the version error
C17_SplitChangesError ==
    /\ Decoded /\ single
    /\ input.req.method = "POST" /\ input.req.version = "HTTP/1.0"
    /\ \A g \in MandatoryHeaders : Correct(input.req, g)
    /\ buffer = <<80, 79, 83, 84, 32>>
    /\ out = Err(HttpMethodError(Some(B("POST"))))
    /\ InOneRead.tag = "Err" /\ InOneRead.err = HttpVersionError(Some(0))

\* the value the header map of the result holds for a mandatory header
Held(h) ==
    LET map == out.val.request.headers
    IN map[CHOOSE k \in 1..Len(map) : map[k].name = HeaderNameOf(h)].value

\* C18: in every HandshakeResult the key is the Sec-WebSocket-Key value of
\* the result's header map, and the Connection, Upgrade and
\* Sec-WebSocket-Version values that validation accepted (the first of each
\* name) are the values the header map holds, also when the request repeats
\* a header with different values.
C18_ResultMatchesMap ==
    Succeeded =>
        /\ out.val.key = Held("key")
        /\ \A h \in ValueChecked : Held(h) = B(FirstValue(input.req, NamesOf(h)))

\* Sec-WebSocket-Key given as k1 and later as k2: the key of the result is
\* k1 and the header map of the result holds k2
C18_KeyDiffers ==
    /\ Succeeded
    /\ out.val.key = B("k1") /\ Held("key") = B("k2")
    /\ FirstValue(input.req, NamesOf("key")) = "k1"

\* the number of times a collaborator was called in the run
TimesCalled(name) == Cardinality({i \in 1..Len(calls) : calls[i] = name})
\* the buffer holds the whole request of the run
WholeRequest == cursor = 0 /\ StartsWith(buffer, Render(input.req))

\* C19: in one run of parse, subprotocol negotiation and the extension
\* provider are each called at most once, and only in a decode cycle whose
\* buffer holds the whole request and whose request passes every validation
\* rule; a cycle that reports "not enough data", fails fast or fails a
\* validation rule calls neither and leaves the registry as it was.
C19_NegotiateOnce ==
    /\ [](TimesCalled("negotiate_request") <= 1 /\ TimesCalled("negotiate_server") <= 1)
    /\ [][ /\ (calls' # calls) =>
                /\ pc = "decode" /\ WholeRequest
                /\ ViolatedRules(input.req) = {} /\ rules' = 7
           /\ (/\ pc = "decode"
               /\ \/ last' = "Partial"
                  \/ last' = "Err" /\ (Incomplete \/ ViolatedRules(input.req) # {}))
              => (calls' = calls /\ subprotocols' = subprotocols)
         ]_vars
C19_Witness ==
    /\ Succeeded /\ single
    /\ calls = <<"negotiate_request", "negotiate_server", "try_map">>
    /\ ValidUpgrade(input) /\ input.provider = "Ext"
    /\ out.val.extension # None

\* the number of bytes the reads of the run have delivered so far
BytesRead == cursor + Len(buffer) - input.held

\* C20: parse reads before its first decode attempt and every decode
\* attempt follows a successful read: the decode step runs only right after
\* a read that delivered bytes, a request that was whole in the buffer when
\* parse started is returned only after a read has succeeded, and when the
\* first read fails parse returns the read error and the decode step is
\* never called.
C20_ReadBeforeDecode ==
    /\ []((last # "None" \/ out.tag = "Ok") => BytesRead >= 1)
    /\ [][ /\ (pc' = "decode") => (pc = "read" /\ IsProperPrefix(buffer, buffer'))
           /\ (last' # last \/ calls' # calls \/ out'.tag = "Ok") => pc = "decode"
           /\ (pc = "decode") => pc' \in {"read", "done"}
           /\ (pc = "read" /\ BytesRead = 0 /\ pc' = "done") =>
                /\ out' = [tag |-> "Err", val |-> NoValue, err |-> IoError]
                /\ last' = "None" /\ calls' = <<>> /\ rules' = 0 /\ buffer' = buffer
         ]_vars
C20_Witness ==
    /\ Succeeded /\ ValidUpgrade(input)
    /\ input.held = Len(Render(input.req)) /\ input.trailing = FRAME
    /\ BytesRead = 1 /\ advances = 1
    /\ buffer = <<129>>

====
